---- MODULE Spec2Model ----
(***************************************************************************)
(* Model of the Amazon Kids content manager scripts: the policy filter,    *)
(* the pause/resume controller (State), and a run of main() with the three *)
(* toggle engines found in the sources:                                    *)
(*   "click"  amazon_kids_content_disabler.js:739-1313  (card clicks,      *)
(*            verified on the switch, one retry)                           *)
(*   "pool"   amazon_kids_content_disabler.js:1-737     (API worker pool,  *)
(*            Engine.toggleItem with backoff)                              *)
(*   "batch"  unnamed/part_000                          (batched API calls)*)
(* One step of the model is one task of the JavaScript event loop: code    *)
(* between two timer / XHR / input events runs without interleaving.       *)
(***************************************************************************)
EXTENDS Integers, Sequences, FiniteSets, TLC

VARIABLES
  \* ---- configuration (CONFIG) and the item handed to the filter
  variant, cfg, fItem, fApplied, fResult,
  \* ---- State (pause / resume / stop)
  ctl, pausePromise, pauseResolve, waiting, lastOp,
  \* ---- host page (data source and remote state)
  fiber, lastPage, srcPage, loading, enabled, pending,
  \* ---- Engine
  processedIds, stats, useApi, toProcess, idx, fl, workers, queue, attempt,
  \* ---- main()
  pc, inFinal, prevCount,
  \* ---- history (observation only, never read by the program)
  hist

cfgVars  == <<variant, cfg>>
fltVars  == <<fItem, fApplied, fResult>>
ctlVars  == <<ctl, pausePromise, pauseResolve>>
callVars == <<waiting, lastOp>>
hostVars == <<fiber, lastPage, srcPage, loading, enabled, pending>>
engVars  == <<processedIds, stats, useApi, toProcess, idx, fl, workers, queue, attempt>>
mainVars == <<pc, inFinal, prevCount>>
vars == <<cfgVars, fltVars, ctlVars, callVars, hostVars, engVars, mainVars, hist>>

-----------------------------------------------------------------------------
(* Bounds of the model *)
MaxTitleLen == 2      \* longest title handed to the filter
MaxKeywords == 1      \* longest keyword list handed to the filter
MaxCallers  == 2      \* callers of State.checkPause() in the controller spec
MaxCards    == 4      \* cards of the remote collection
MaxPages    == 3      \* pages of the remote collection

(* Program constants *)
maxRetries     == 3
retryBackoffMs == 1000

-----------------------------------------------------------------------------
(* Strings are sequences of characters; "A" is the upper-case form of "a". *)
Chars == {"a", "A", "b"}

\* a comparison that folds no case
toLowerCaseChar_Identity(ch) == ch

toLowerCaseChar(ch) == IF ch = "A" THEN "a" ELSE ch

toLowerCase(s) == [i \in 1..Len(s) |-> toLowerCaseChar(s[i])]

\* String.prototype.includes
includes(s, k) ==
  \E i \in 0..(Len(s) - Len(k)) : SubSeq(s, i + 1, i + Len(k)) = k

\* content types are atoms; toUpperCase folds the lower-case spellings
toUpperCaseType(t) ==
  CASE t = "app"   -> "APP"
    [] t = "ebook" -> "EBOOK"
    [] OTHER       -> t

\* an optional array: null, or an array v
NullArr == [null |-> TRUE, v |-> <<>>]
Arr(v)  == [null |-> FALSE, v |-> v]

Strings(n) == UNION {[1..m -> Chars] : m \in 0..n}
Lists(S, n) == UNION {[1..m -> S] : m \in 0..n}
OptLists(S, n) == {NullArr} \cup {Arr(l) : l \in Lists(S, n)}

Keywords == {<<"a">>, <<"A">>, <<"b">>}

-----------------------------------------------------------------------------
(* Filter.shouldProcess: mode, content type, include keywords.  CONFIG has  *)
(* no excludeKeywords key in any of the three scripts; the field is carried *)
(* in cfg because README.md documents it, and the code never reads it.      *)
ModePasses(item, c) ==
  /\ ~(c.mode = "disable" /\ ~item.isEnabled)
  /\ ~(c.mode = "enable" /\ item.isEnabled)

ContentTypePasses(item, c) ==
  c.contentTypes.null \/
    LET t == toUpperCaseType(item.contentType)
    IN \E i \in 1..Len(c.contentTypes.v) : toUpperCaseType(c.contentTypes.v[i]) = t

KeywordPasses(item, c) ==
  (c.keywords.null \/ Len(c.keywords.v) = 0) \/
    LET title == IF c.keywordCaseSensitive THEN item.title ELSE toLowerCase(item.title)
    IN \E i \in 1..Len(c.keywords.v) :
         LET k == IF c.keywordCaseSensitive THEN c.keywords.v[i]
                  ELSE toLowerCase(c.keywords.v[i])
         IN includes(title, k)

shouldProcess(item, c) ==
  /\ ModePasses(item, c)
  /\ ContentTypePasses(item, c)
  /\ KeywordPasses(item, c)

-----------------------------------------------------------------------------
(* State: the pause / resume / stop controller.  A promise is an id in     *)
(* 1..MaxCallers+1 (0 is null); an id no caller waits on is free for the    *)
(* next `new Promise`.  Resolving a promise runs the continuation of every  *)
(* caller awaiting it before the next task starts.                          *)
Callers == 1..MaxCallers

FreshPromise == CHOOSE p \in 1..(MaxCallers + 1) : \A k \in Callers : waiting[k] # p

isRunning == ctl = "running"
isPaused  == ctl = "paused"

\* the resolver r of a promise is called (r = 0: `if (this._pauseResolve)` fails)
Resolve(r) ==
  waiting' = [k \in Callers |-> IF r # 0 /\ waiting[k] = r THEN 0 ELSE waiting[k]]

StateStart ==
  /\ ctl' = "running"
  /\ UNCHANGED <<pausePromise, pauseResolve, waiting>>

\* pause() without its state test
StatePause_Unguarded ==
  /\ ctl' = "paused"
  /\ pausePromise' = FreshPromise
  /\ pauseResolve' = FreshPromise
  /\ UNCHANGED waiting

StatePause ==
  IF ctl # "running" THEN UNCHANGED <<ctlVars, waiting>>
  ELSE /\ ctl' = "paused"
       /\ pausePromise' = FreshPromise
       /\ pauseResolve' = FreshPromise
       /\ UNCHANGED waiting

StateResume ==
  IF ctl # "paused" THEN UNCHANGED <<ctlVars, waiting>>
  ELSE /\ ctl' = "running"
       /\ Resolve(pauseResolve)
       /\ pausePromise' = 0
       /\ UNCHANGED pauseResolve

StateStop ==
  /\ ctl' = "done"
  /\ Resolve(pauseResolve)
  /\ UNCHANGED <<pausePromise, pauseResolve>>

\* State.checkPause() suspends its caller (a promise held in _pausePromise while
\* the state is paused has not been resolved: resume() and stop() leave paused)
checkPauseBlocks ==
  ctl = "paused" /\ pausePromise # 0

-----------------------------------------------------------------------------
(* Values of the run's variables while no run is modelled *)
Cards == 1..MaxCards

ZeroStats == [toggled |-> 0, skipped |-> 0, failed |-> 0, retried |-> 0]

NoItem == [card |-> 0, isEnabled |-> FALSE]

DefaultCfg ==
  [mode |-> "disable", contentTypes |-> NullArr, keywords |-> NullArr,
   excludeKeywords |-> NullArr, keywordCaseSensitive |-> FALSE, dryRun |-> FALSE]

NoRun ==
  /\ fiber = FALSE /\ lastPage = 1 /\ srcPage = 1 /\ loading = FALSE
  /\ enabled = [c \in Cards |-> FALSE]
  /\ pending = [c \in Cards |-> 0]
  /\ processedIds = {} /\ stats = ZeroStats /\ useApi = FALSE
  /\ toProcess = <<>> /\ idx = 1
  /\ fl = [c \in Cards |-> "none"]
  /\ workers = <<>> /\ queue = <<>> /\ attempt = 0
  /\ pc = "off" /\ inFinal = FALSE /\ prevCount = 0
  /\ hist = [acts |-> [c \in Cards |-> 0]]

NoCtl ==
  /\ ctl = "idle" /\ pausePromise = 0 /\ pauseResolve = 0
  /\ waiting = [k \in Callers |-> 0]
  /\ lastOp = [op |-> "none", tick |-> 0, blocked |-> FALSE, armed |-> FALSE]

NoFilter ==
  /\ fItem = [title |-> <<>>, contentType |-> "APP", isEnabled |-> FALSE]
  /\ fApplied = FALSE /\ fResult = FALSE

-----------------------------------------------------------------------------
(* The filter on its own: every item and configuration within the bounds *)
ItemTypes == {"APP", "app", "EBOOK", ""}

FilterItems ==
  [title : Strings(MaxTitleLen), contentType : ItemTypes, isEnabled : BOOLEAN]

FilterConfigs ==
  [mode : {"disable", "enable"},
   contentTypes : {NullArr, Arr(<<>>), Arr(<<"app">>), Arr(<<"APP", "EBOOK">>)},
   keywords : OptLists(Keywords, MaxKeywords),
   excludeKeywords : OptLists(Keywords, MaxKeywords),
   keywordCaseSensitive : BOOLEAN,
   dryRun : {FALSE}]

InitFilter ==
  /\ variant = "click"
  /\ cfg \in FilterConfigs
  /\ fItem \in FilterItems
  /\ fApplied = FALSE /\ fResult = FALSE
  /\ NoCtl /\ NoRun

ApplyFilter ==
  /\ ~fApplied
  /\ fApplied' = TRUE
  /\ fResult' = shouldProcess(fItem, cfg)
  /\ UNCHANGED <<cfgVars, fItem, ctlVars, callVars, hostVars, engVars, mainVars, hist>>

NextFilter == ApplyFilter

SpecFilter == InitFilter /\ [][NextFilter]_vars

-----------------------------------------------------------------------------
(* The controller on its own: its five methods called in any order by any  *)
(* of MaxCallers callers; a caller suspended in checkPause() makes no call. *)
Called(op, blocked, armed) ==
  lastOp' = [op |-> op, tick |-> 1 - lastOp.tick, blocked |-> blocked, armed |-> armed]

UnchangedByCtl == UNCHANGED <<cfgVars, fltVars, hostVars, engVars, mainVars, hist>>

CallStart ==
  /\ StateStart
  /\ Called("start", FALSE, lastOp.armed)
  /\ UnchangedByCtl

CallPause ==
  /\ StatePause
  /\ Called("pause", FALSE, lastOp.armed \/ ctl = "running")
  /\ UnchangedByCtl

CallResume ==
  /\ StateResume
  /\ Called("resume", FALSE, FALSE)
  /\ UnchangedByCtl

CallStop ==
  /\ StateStop
  /\ Called("stop", FALSE, FALSE)
  /\ UnchangedByCtl

CallCheckPause(k) ==
  /\ waiting[k] = 0
  /\ waiting' = [waiting EXCEPT ![k] = IF checkPauseBlocks THEN pausePromise ELSE 0]
  /\ Called("checkPause", checkPauseBlocks, lastOp.armed)
  /\ UNCHANGED ctlVars
  /\ UnchangedByCtl

InitCtl ==
  /\ variant = "click" /\ cfg = DefaultCfg
  /\ NoFilter /\ NoCtl /\ NoRun

NextCtl ==
  \/ CallStart
  \/ CallPause
  \/ CallResume
  \/ CallStop
  \/ \E k \in Callers : CallCheckPause(k)

SpecCtl == InitCtl /\ [][NextCtl]_vars

-----------------------------------------------------------------------------
(* The host page.  Card c carries one item; cards 1 and 2 have the same     *)
(* title.  With fiber access an item has an itemId, without it itemId is    *)
(* null and the dedup key `item.itemId ?? item.title` is the title.  The     *)
(* item list is cumulative: page p adds card p, the last page the rest.     *)
cardTitle(c) == IF c <= 2 THEN <<"a">> ELSE [i \in 1..(c - 2) |-> "b"]

keyOf(c) ==
  IF fiber THEN [itemId |-> c, title |-> <<>>]
  ELSE [itemId |-> 0, title |-> cardTitle(c)]

VisibleCount == IF srcPage >= lastPage THEN MaxCards ELSE srcPage

\* ItemSource.getItems(): a fresh snapshot of every visible card
getItems == [c \in 1..VisibleCount |-> [card |-> c, isEnabled |-> enabled[c]]]

ItemOf(e) ==
  [title |-> cardTitle(e.card), contentType |-> "APP", isEnabled |-> e.isEnabled]

\* ItemSource.getPagination(): the "Show more" button exists until the last
\* page; isLoading is read from the fiber and is false without it
getPagination ==
  [isLastPage |-> srcPage >= lastPage, isLoading |-> fiber /\ loading,
   loadMore |-> srcPage < lastPage]

expectChecked == cfg.mode = "enable"

-----------------------------------------------------------------------------
(* Bookkeeping shared by the engines *)
Concurrency == 2   \* actuations in one chunk / workers of the pool (5, 5, 30 in CONFIG)
MaxPolls    == 1   \* cycles that may find the page still loading

SyncPcs == {"start", "loop", "chunk", "pool", "pagination", "final", "finish"}

Min(a, b) == IF a < b THEN a ELSE b

Ret(final) == IF final THEN "finish" ELSE "pagination"

\* `=` in place of `+=`
Bump_Assigns(st, field, n) == [st EXCEPT ![field] = n]

Bump(st, field, n) == [st EXCEPT ![field] = @ + n]

\* a missing card counted as a failure and as a retry
CountNoCard_AsRetry(st, n) == [st EXCEPT !.failed = @ + n, !.retried = @ + n]

\* `if (!cardEl) { ...; this._stats.failed++; return ...; }` for n items
CountNoCard(st, n) == [st EXCEPT !.failed = @ + n]

\* a click that cannot be verified and is not counted
CountTrusted_Dropped(st, n) == st

\* `else { this._stats.toggled++; ... }`: the card has no switch, the click is
\* counted unverified, for n items
CountTrusted(st, n) == Bump(st, "toggled", n)

\* `Date.now() - start > timeoutMs` in a polling wait: the clock advances, so
\* the test succeeds at some poll if the awaited condition does not come first
Elapsed_Never == FALSE

Elapsed == TRUE

CardsOf(seq) == {seq[i].card : i \in 1..Len(seq)}

KeysOf(seq) == {keyOf(seq[i].card) : i \in 1..Len(seq)}

\* outcomes counted for one card, by kind
NoOut == [toggled |-> 0, failed |-> 0, nocard |-> 0, skipped |-> 0]

InitHist ==
  [acts |-> [c \in Cards |-> 0], clicks |-> 0, apiCalls |-> 0,
   out |-> [c \in Cards |-> NoOut], delays |-> [c \in Cards |-> <<>>],
   selected |-> 0, cycles |-> 0, finalPasses |-> 0, firstLastAt |-> 0,
   polls |-> 0, sleeps |-> 0, countedPaused |-> FALSE, issuedIn |-> {},
   loadedIn |-> {}, permRetried |-> FALSE, changed |-> 0, discovered |-> 0,
   straggler |-> 0, checkedIn |-> {},
   enabled0 |-> [c \in Cards |-> FALSE]]

\* history: outcome o counted for the cards cs (the sleeps of an actuation are
\* kept while it is open and once it failed)
Out(h, cs, o) ==
  [h EXCEPT !.out = [c \in Cards |-> IF c \in cs THEN [h.out[c] EXCEPT ![o] = @ + 1]
                                     ELSE h.out[c]],
            !.delays = [c \in Cards |-> IF c \in cs /\ o = "toggled" THEN <<>>
                                        ELSE h.delays[c]],
            !.countedPaused = h.countedPaused \/ (cs # {} /\ isPaused)]

\* history: a first actuation (not a retry) is issued for the cards cs, the
\* controller being in state st
Acts(h, cs, st) ==
  [h EXCEPT !.acts = [c \in Cards |-> IF c \in cs THEN h.acts[c] + 1 ELSE h.acts[c]],
            !.issuedIn = IF cs = {} THEN @ ELSE @ \cup {st}]

Clicked(h, n) == [h EXCEPT !.clicks = @ + n]

\* history: State.checkPause() is called, the controller being in state ctl
Checked(h) == [h EXCEPT !.checkedIn = @ \cup {ctl}]

ApiCalled(h) == [h EXCEPT !.apiCalls = @ + 1]

\* the rejections of ApiLayer.toggleViaApi: 'Rate limited (429)', 'HTTP <status>'
\* for any other status outside 2xx, 'Network error' / 'Timeout'
ErrKinds == {"429", "http", "network"}

\* a definitive rejection by the remote system
PermanentKinds == {"http"}

\* history: the actuation of the cards cs was rejected with an error of kind
\* `kind` and sleeps d ms before its next attempt
Slept(h, cs, d, kind) ==
  [h EXCEPT !.delays = [c \in Cards |-> IF c \in cs THEN Append(h.delays[c], d)
                                        ELSE h.delays[c]],
            !.sleeps = @ + 1,
            !.permRetried = @ \/ kind \in PermanentKinds]

\* aria-label of the switch of card d: "Title, ContentType"
ariaLabel(d) == cardTitle(d) \o <<",", " ", "A", "P", "P">>

\* Engine._findCardByTitle, and the same loop in Engine.init: the card of the
\* first switch in document order whose aria-label includes the title
findCardByTitle(title) ==
  CHOOSE d \in 1..VisibleCount :
    /\ includes(ariaLabel(d), title)
    /\ \A e \in 1..(d - 1) : ~includes(ariaLabel(e), title)

\* `item._domCard || this._findCardByTitle(item.title)`: an item read from the
\* DOM carries its own card, an item read from the fiber is looked up by title
cardElOf(c) == IF fiber THEN findCardByTitle(cardTitle(c)) ELSE c

\* cardEl.click() for every item of cs: the host flips the item of the clicked
\* card some time later
Click(cs) ==
  pending' = [d \in Cards |-> pending[d] + Cardinality({c \in cs : cardElOf(c) = d})]

-----------------------------------------------------------------------------
(* Engine.processBatch, entry: filter, mark, dry run.  `final` tells the   *)
(* caller (main loop or final pass), h the history so far.                  *)
filterToProcess(items) ==
  SelectSeq(items, LAMBDA e : keyOf(e.card) \notin processedIds /\ shouldProcess(ItemOf(e), cfg))

\* a worker for every item of the batch
PoolSize_Unbounded(n) == n

\* `i < Math.min(CONFIG.apiConcurrency, queue.length)`: the workers of the pool
PoolSize(n) == Min(Concurrency, n)

\* click and batch engines: every survivor is marked before anything else
MarkUpfront(tp) == processedIds \cup KeysOf(tp)

\* the locals of processBatch before the call and after its return
NoBatch == toProcess' = <<>> /\ idx' = 1 /\ workers' = <<>> /\ queue' = <<>> /\ attempt' = 0

processBatchEnter(items, final, h) ==
  LET tp == filterToProcess(items) IN
  /\ inFinal' = final
  /\ IF Len(tp) = 0
     THEN /\ pc' = Ret(final)
          /\ hist' = h
          /\ NoBatch
          /\ UNCHANGED <<processedIds, stats>>
     ELSE IF variant = "pool"
     THEN /\ toProcess' = tp
          /\ idx' = 1
          /\ attempt' = 0
          /\ hist' = h
          /\ IF useApi /\ fiber
             THEN /\ queue' = tp
                  /\ workers' = [w \in 1..PoolSize(Len(tp)) |->
                                   [st |-> "ready", card |-> 0, attempt |-> 0]]
                  /\ pc' = "pool"
             ELSE /\ pc' = "chunk"
                  /\ workers' = <<>> /\ queue' = <<>>
          /\ UNCHANGED <<processedIds, stats>>
     ELSE /\ processedIds' = MarkUpfront(tp)
          /\ IF cfg.dryRun
             THEN /\ stats' = Bump(stats, "skipped", Len(tp))
                  /\ pc' = Ret(final)
                  /\ hist' = Out([h EXCEPT !.selected = @ + Len(tp)], CardsOf(tp), "skipped")
                  /\ NoBatch
             ELSE /\ toProcess' = tp
                  /\ idx' = 1
                  /\ attempt' = 0
                  /\ workers' = <<>> /\ queue' = <<>>
                  /\ pc' = "chunk"
                  /\ hist' = [h EXCEPT !.selected = @ + Len(tp)]
                  /\ UNCHANGED stats

-----------------------------------------------------------------------------
(* main() *)

\* Engine.init without the dry-run test on the discovery click
MayDiscover_IgnoresDryRun(targets, cardFound) == Len(targets) > 0 /\ cardFound

\* Engine.init: `if (firstTarget)` ... `if (cardEl && !CONFIG.dryRun)`
MayDiscover(targets, cardFound) == Len(targets) > 0 /\ cardFound /\ ~cfg.dryRun

\* the pre-flight check placed after State.start()
AbortPreflight_AfterStart == StateStart

\* `return` of the pre-flight check: State.start() is not reached
AbortPreflight == UNCHANGED <<ctlVars, waiting>>

\* pre-flight check, ItemSource.init, State.start, Engine.init
Preflight(onHost) ==
  /\ pc = "start"
  /\ IF ~onHost
     THEN /\ pc' = "aborted"
          /\ AbortPreflight
          /\ UNCHANGED <<hostVars, engVars, hist>>
     ELSE /\ StateStart
          /\ IF variant = "click"
             THEN /\ pc' = "loop"
                  /\ UNCHANGED <<hostVars, engVars, hist>>
             ELSE \E cardFound \in BOOLEAN :
                    LET targets == SelectSeq(getItems, LAMBDA e : shouldProcess(ItemOf(e), cfg)) IN
                    IF MayDiscover(targets, cardFound)
                    THEN /\ toProcess' = <<targets[1]>>
                         /\ Click({targets[1].card})
                         /\ hist' = [Clicked(Acts(hist, {targets[1].card}, ctl'), 1)
                                       EXCEPT !.discovered = cardElOf(targets[1].card)]
                         /\ pc' = "discover"
                         /\ UNCHANGED <<fiber, lastPage, srcPage, loading, enabled,
                                        processedIds, stats, useApi, idx, fl, workers,
                                        queue, attempt>>
                    ELSE /\ pc' = "loop"
                         /\ UNCHANGED <<hostVars, engVars, hist>>
  /\ UNCHANGED <<cfgVars, fltVars, lastOp, inFinal, prevCount>>

\* ApiLayer.discover resolves: the XHR was captured, or 8000 ms went by
DiscoverDone(captured) ==
  /\ pc = "discover"
  /\ useApi' = captured
  /\ processedIds' = processedIds \cup KeysOf(toProcess)
  /\ stats' = Bump(stats, "toggled", 1)
  /\ hist' = Out(hist, CardsOf(toProcess), "toggled")
  /\ toProcess' = <<>>
  /\ pc' = "loop"
  /\ UNCHANGED <<cfgVars, fltVars, ctlVars, callVars, hostVars, idx, fl, workers, queue,
                 attempt, inFinal, prevCount>>

\* while (State.isRunning()) { await State.checkPause(); ... processBatch(items)
LoopCycle ==
  /\ pc = "loop"
  /\ IF ~isRunning
     THEN /\ pc' = "final"
          /\ UNCHANGED <<engVars, inFinal, prevCount, hist>>
     ELSE IF checkPauseBlocks
     THEN /\ pc' = "suspended"
          /\ hist' = Checked(hist)
          /\ UNCHANGED <<engVars, inFinal, prevCount>>
     ELSE /\ prevCount' = Len(getItems)
          /\ processBatchEnter(getItems, FALSE, [Checked(hist) EXCEPT !.cycles = @ + 1])
          /\ UNCHANGED <<useApi, fl>>
  /\ UNCHANGED <<cfgVars, fltVars, ctlVars, callVars, hostVars>>

\* the last page treated like any other: sleep, next cycle
AfterLastPage_Continues == pc' = "pageSleep"

\* `if (pagination.isLastPage) { ...; break; }`
AfterLastPage == pc' = "final"

\* processBatch has returned; isLastPage / no loadMore / isLoading / loadMore()
Pagination ==
  /\ pc = "pagination"
  /\ LET pg == getPagination IN
     IF pg.isLastPage
     THEN /\ AfterLastPage
          /\ hist' = [hist EXCEPT !.firstLastAt = IF @ = 0 THEN hist.cycles ELSE @]
          /\ UNCHANGED loading
     ELSE IF ~pg.loadMore
     THEN /\ pc' = "final"
          /\ UNCHANGED <<hist, loading>>
     ELSE IF pg.isLoading
     THEN /\ pc' = "loadingSleep"
          /\ hist' = [hist EXCEPT !.polls = @ + 1]
          /\ UNCHANGED loading
     ELSE \* loadMore(); a request made while one is pending changes nothing
          /\ loading' = TRUE
          /\ pc' = "waitNew"
          /\ hist' = [hist EXCEPT !.polls = IF loading THEN @ + 1 ELSE @,
                                  !.loadedIn = @ \cup {ctl}]
  /\ NoBatch
  /\ UNCHANGED <<cfgVars, fltVars, ctlVars, callVars, fiber, lastPage, srcPage, enabled,
                 pending, processedIds, stats, useApi, fl, inFinal, prevCount>>

\* sleep(1000) ends; the page stops loading before the poll bound is passed
LoadingSleepEnds ==
  /\ pc = "loadingSleep"
  /\ hist.polls < MaxPolls \/ ~loading
  /\ pc' = "loop"
  /\ UNCHANGED <<cfgVars, fltVars, ctlVars, callVars, hostVars, engVars, inFinal, prevCount, hist>>

\* waitForNewItems: the item count exceeded previousCount
NewItemsSeen ==
  /\ pc = "waitNew"
  /\ Len(getItems) > prevCount
  /\ pc' = "pageSleep"
  /\ UNCHANGED <<cfgVars, fltVars, ctlVars, callVars, hostVars, engVars, inFinal, prevCount, hist>>

\* a timeout of the wait that ends the main loop
AfterNewItemsTimeout_EndsRun == pc' = "final"

\* 'Timeout waiting for new items — continuing': resolve(), then
\* `await sleep(CONFIG.pageDelayMs)` in main
AfterNewItemsTimeout == pc' = "pageSleep"

\* waitForNewItems: 15000 ms went by without new items (the page arrives
\* before the poll bound is passed)
NewItemsTimeout ==
  /\ pc = "waitNew"
  /\ Len(getItems) <= prevCount
  /\ Elapsed
  /\ fiber \/ hist.polls < MaxPolls
  /\ AfterNewItemsTimeout
  /\ UNCHANGED <<cfgVars, fltVars, ctlVars, callVars, hostVars, engVars, inFinal, prevCount, hist>>

\* sleep(CONFIG.pageDelayMs) ends
PageSleepEnds ==
  /\ pc = "pageSleep"
  /\ pc' = "loop"
  /\ UNCHANGED <<cfgVars, fltVars, ctlVars, callVars, hostVars, engVars, inFinal, prevCount, hist>>

\* a final pass made whatever the state of the controller
MayFinalPass_Always == TRUE

\* `if (State.isRunning())` before the final pass
MayFinalPass == isRunning

\* final pass: if (State.isRunning()) processBatch(getItems())
FinalPass ==
  /\ pc = "final"
  /\ IF MayFinalPass
     THEN /\ processBatchEnter(getItems, TRUE, [hist EXCEPT !.finalPasses = @ + 1])
          /\ UNCHANGED <<useApi, fl>>
     ELSE /\ pc' = "finish"
          /\ UNCHANGED <<engVars, inFinal, hist>>
  /\ UNCHANGED <<cfgVars, fltVars, ctlVars, callVars, hostVars, prevCount>>

\* State.stop(); Logger.summary
Finish ==
  /\ pc = "finish"
  /\ StateStop
  /\ pc' = "done"
  /\ NoBatch
  /\ UNCHANGED <<cfgVars, fltVars, lastOp, hostVars, processedIds, stats, useApi, fl,
                 inFinal, prevCount, hist>>

-----------------------------------------------------------------------------
(* The operator and the host, between two tasks of the script *)

\* keydown Ctrl+Alt+C: if (State.isRunning()) State.pause()
KeyPause ==
  /\ pc \notin SyncPcs \cup {"aborted", "off"}
  /\ isRunning
  /\ StatePause
  /\ UNCHANGED <<cfgVars, fltVars, lastOp, hostVars, engVars, mainVars, hist>>

\* keydown Ctrl+Alt+R: if (State.isPaused()) State.resume()
KeyResume ==
  /\ pc \notin SyncPcs \cup {"aborted", "off"}
  /\ isPaused
  /\ StateResume
  /\ UNCHANGED <<cfgVars, fltVars, lastOp, hostVars, engVars, mainVars, hist>>

\* the effect of a card click reaches the item
FlipLands(c) ==
  /\ pc \notin SyncPcs \cup {"done", "aborted"}
  /\ pending[c] > 0
  /\ pending' = [pending EXCEPT ![c] = @ - 1]
  /\ enabled' = [enabled EXCEPT ![c] = ~@]
  /\ UNCHANGED <<cfgVars, fltVars, ctlVars, callVars, fiber, lastPage, srcPage, loading,
                 engVars, mainVars, hist>>

\* the page requested by "Show more" arrives
PageArrives ==
  /\ pc \notin SyncPcs \cup {"done", "aborted"}
  /\ loading
  /\ loading' = FALSE
  /\ srcPage' = srcPage + 1
  /\ UNCHANGED <<cfgVars, fltVars, ctlVars, callVars, fiber, lastPage, enabled, pending,
                 engVars, mainVars, hist>>

\* somebody else (the parent in the dashboard, another device) switches the
\* last item of the batch in progress before the batch has reached it; once a run
HostChange(c) ==
  /\ pc \notin SyncPcs \cup {"done", "aborted", "discover"}
  /\ hist.changed = 0 /\ hist.straggler = 0
  /\ Len(toProcess) > 0 /\ c = toProcess[Len(toProcess)].card
  /\ hist.acts[c] = 0 /\ hist.out[c] = NoOut /\ pending[c] = 0
  /\ enabled' = [enabled EXCEPT ![c] = ~@]
  /\ hist' = [hist EXCEPT !.changed = c]
  /\ UNCHANGED <<cfgVars, fltVars, ctlVars, callVars, fiber, lastPage, srcPage, loading,
                 pending, engVars, mainVars>>

\* somebody else switches a listed item that was in the desired state when the
\* page was read (so it is not in the batch) while the batch is in progress;
\* one outside change a run
StragglerAppears(c) ==
  /\ pc \notin SyncPcs \cup {"done", "aborted", "discover"}
  /\ hist.changed = 0 /\ hist.straggler = 0
  /\ Len(toProcess) > 0 /\ c \in 1..VisibleCount /\ c \notin CardsOf(toProcess)
  /\ enabled[c] = expectChecked /\ keyOf(c) \notin processedIds
  /\ hist.acts[c] = 0 /\ hist.out[c] = NoOut /\ pending[c] = 0
  /\ enabled' = [enabled EXCEPT ![c] = ~@]
  /\ hist' = [hist EXCEPT !.straggler = c]
  /\ UNCHANGED <<cfgVars, fltVars, ctlVars, callVars, fiber, lastPage, srcPage, loading,
                 pending, engVars, mainVars>>

-----------------------------------------------------------------------------
(* Engine.processBatch of the click engine: chunks of clickConcurrency     *)
(* cards are clicked at once and each click is verified on the switch.      *)
ChunkPos == idx..Min(idx + Concurrency - 1, Len(toProcess))

ChunkCards == {toProcess[p].card : p \in ChunkPos}

\* a chunk / item loop that does not test the controller
MayStartChunk_Always == TRUE

\* `if (!State.isRunning()) break;` at the head of every chunk / item
MayStartChunk == isRunning

\* after Promise.all: sleep(clickDelayMs) if a chunk is left, else return
ChunkFinished ==
  /\ idx' = idx + Concurrency
  /\ pc' = IF idx + Concurrency <= Len(toProcess) THEN "chunkSleep" ELSE Ret(inFinal)

ClickChunk ==
  /\ pc = "chunk" /\ variant = "click"
  /\ IF idx > Len(toProcess) \/ ~MayStartChunk
     THEN /\ pc' = Ret(inFinal)
          /\ UNCHANGED <<pending, stats, fl, idx, hist>>
     ELSE IF checkPauseBlocks
     THEN /\ pc' = "suspended"
          /\ hist' = Checked(hist)
          /\ UNCHANGED <<pending, stats, fl, idx>>
     ELSE \E res \in [ChunkCards -> {"nocard", "nosw", "wait"}] :
            \* items that are looked up to the same card get the same result
            /\ \A c \in ChunkCards : \A d \in ChunkCards :
                 cardElOf(c) = cardElOf(d) => res[c] = res[d]
            /\ LET none  == {c \in ChunkCards : res[c] = "nocard"}
                   trust == {c \in ChunkCards : res[c] = "nosw"}
                   wait  == {c \in ChunkCards : res[c] = "wait"}
               IN /\ Click(trust \cup wait)
                  /\ stats' = CountTrusted(CountNoCard(stats, Cardinality(none)),
                                           Cardinality(trust))
                  /\ fl' = [c \in Cards |-> IF c \in wait THEN "wait1" ELSE fl[c]]
                  /\ hist' = Out(Out(Clicked(Acts(Checked(hist), trust \cup wait, ctl),
                                             Cardinality(trust \cup wait)),
                                     none, "nocard"), trust, "toggled")
                  /\ IF wait = {} THEN ChunkFinished
                     ELSE pc' = "chunkWait" /\ UNCHANGED idx
  /\ UNCHANGED <<cfgVars, fltVars, ctlVars, callVars, fiber, lastPage, srcPage, loading,
                 enabled, processedIds, useApi, toProcess, workers, queue, attempt,
                 inFinal, prevCount>>

\* Promise.race in place of Promise.all: the first promise to settle ends the chunk
Settled_Race(c) == ChunkFinished

\* the last promise of the chunk settles: Promise.all resolves
Settled(c) ==
  IF \A d \in Cards \ {c} : fl[d] = "none" THEN ChunkFinished
  ELSE UNCHANGED <<pc, idx>>

\* `sw.checked === expectedChecked` on the switch of the card that was clicked
SwitchShows(c) == enabled[cardElOf(c)] = expectChecked

\* _waitForToggle resolves true: the switch shows the expected state
ToggleSeen(c) ==
  /\ pc = "chunkWait" /\ fl[c] # "none"
  /\ SwitchShows(c)
  /\ stats' = Bump(stats, "toggled", 1)
  /\ fl' = [fl EXCEPT ![c] = "none"]
  /\ hist' = Out(hist, {c}, "toggled")
  /\ Settled(c)
  /\ UNCHANGED <<cfgVars, fltVars, ctlVars, callVars, hostVars, processedIds, useApi,
                 toProcess, workers, queue, attempt, inFinal, prevCount>>

\* a retry after every verification that timed out
MayClickAgain_Always(c) == fl[c] \in {"wait1", "wait2"}

\* the `else` of the first verification clicks again; the `else` of the second
\* (ok2) counts the item failed
MayClickAgain(c) == fl[c] = "wait1"

\* _waitForToggle resolves false after timeoutMs: one more click, or failed
ToggleTimeout(c) ==
  /\ pc = "chunkWait" /\ fl[c] # "none"
  /\ enabled[cardElOf(c)] # expectChecked
  /\ Elapsed
  /\ IF MayClickAgain(c)
     THEN /\ Click({c})
          /\ fl' = [fl EXCEPT ![c] = "wait2"]
          /\ hist' = Clicked(hist, 1)
          /\ UNCHANGED <<stats, pc, idx>>
     ELSE /\ stats' = Bump(stats, "failed", 1)
          /\ fl' = [fl EXCEPT ![c] = "none"]
          /\ hist' = Out(hist, {c}, "failed")
          /\ Settled(c)
          /\ UNCHANGED pending
  /\ UNCHANGED <<cfgVars, fltVars, ctlVars, callVars, fiber, lastPage, srcPage, loading,
                 enabled, processedIds, useApi, toProcess, workers, queue, attempt,
                 inFinal, prevCount>>

\* sleep(CONFIG.clickDelayMs) between two chunks ends
ChunkSleepEnds ==
  /\ pc = "chunkSleep"
  /\ pc' = "chunk"
  /\ UNCHANGED <<cfgVars, fltVars, ctlVars, callVars, hostVars, engVars, inFinal, prevCount, hist>>

-----------------------------------------------------------------------------
(* Sequential DOM clicks of the API engines: Engine.toggleItem without API  *)
(* (pool script) and Engine.toggleItemDOM (batch script).                   *)
UsesApi == useApi /\ fiber     \* this._useApi && toProcess.every((i) => i.itemId)

SeqNext == idx' = idx + 1 /\ pc' = "chunk"

\* a missing card that ends the item loop
AfterNoCard_Breaks == pc' = Ret(inFinal) /\ UNCHANGED idx

\* `if (!cardEl) { this._stats.failed++; return; }`: the item loop goes on
AfterNoCard == SeqNext

\* card lookup, click, sleep(clickDelayMs); no card: failed at once
DomToggle(c, h) ==
  \E cardFound \in BOOLEAN :
    IF cardFound
    THEN /\ Click({c})
         /\ hist' = Clicked(Acts(h, {c}, ctl), 1)
         /\ pc' = "seqWait"
         /\ UNCHANGED <<stats, idx>>
    ELSE /\ stats' = CountNoCard(stats, 1)
         /\ hist' = Out(h, {c}, "nocard")
         /\ AfterNoCard
         /\ UNCHANGED pending

SeqItem ==
  /\ pc = "chunk" /\ variant # "click" /\ ~(variant = "batch" /\ UsesApi)
  /\ IF idx > Len(toProcess) \/ ~MayStartChunk
     THEN /\ pc' = Ret(inFinal)
          /\ UNCHANGED <<pending, processedIds, stats, idx, hist>>
     ELSE IF checkPauseBlocks
     THEN /\ pc' = "suspended"
          /\ hist' = Checked(hist)
          /\ UNCHANGED <<pending, processedIds, stats, idx>>
     ELSE LET c == toProcess[idx].card
              h == Checked(hist)
          IN
          IF variant = "batch"
          THEN DomToggle(c, h) /\ UNCHANGED processedIds
          ELSE \* toggleItem: dedup test and insertion, then dry run
               IF keyOf(c) \in processedIds
               THEN SeqNext /\ hist' = h /\ UNCHANGED <<pending, processedIds, stats>>
               ELSE /\ processedIds' = processedIds \cup {keyOf(c)}
                    /\ IF cfg.dryRun
                       THEN /\ stats' = Bump(stats, "skipped", 1)
                            /\ hist' = Out([h EXCEPT !.selected = @ + 1], {c}, "skipped")
                            /\ SeqNext
                            /\ UNCHANGED pending
                       ELSE DomToggle(c, [h EXCEPT !.selected = @ + 1])
  /\ UNCHANGED <<cfgVars, fltVars, ctlVars, callVars, fiber, lastPage, srcPage, loading,
                 enabled, useApi, toProcess, fl, workers, queue, attempt, inFinal, prevCount>>

\* sleep(CONFIG.clickDelayMs) after the click ends: toggled++
SeqClickDone ==
  /\ pc = "seqWait"
  /\ stats' = Bump(stats, "toggled", 1)
  /\ hist' = Out(hist, {toProcess[idx].card}, "toggled")
  /\ SeqNext
  /\ UNCHANGED <<cfgVars, fltVars, ctlVars, callVars, hostVars, processedIds, useApi,
                 toProcess, fl, workers, queue, attempt, inFinal, prevCount>>

-----------------------------------------------------------------------------
(* Retry with backoff, shared by Engine.toggleItem and the batch loop *)
Pow2(n) == 2 ^ n   \* Math.pow(2, n)

\* the retry test off by one
MayRetry_OffByOne(a) == a < maxRetries - 1

\* `if (attempt < CONFIG.maxRetries)` in the catch block
MayRetry(a) == a < maxRetries

\* const delay = CONFIG.retryBackoffMs * Math.pow(2, attempt)
BackoffDelay(a) == retryBackoffMs * Pow2(a)

\* what the remote system made of an accepted API call
ApiEffect(cs, applied) ==
  enabled' = [c \in Cards |-> IF c \in cs /\ applied THEN expectChecked ELSE enabled[c]]

-----------------------------------------------------------------------------
(* Worker pool of the pool script: apiConcurrency workers share the queue   *)
SetWorker(w, st, c, a) ==
  workers' = [workers EXCEPT ![w] = [st |-> st, card |-> c, attempt |-> a]]

\* one worker runs until its next XHR (or leaves its loop)
PoolRun ==
  /\ pc = "pool"
  /\ LET ready == {w \in DOMAIN workers : workers[w].st = "ready"} IN
     IF ready = {}
     THEN /\ pc' = IF \A w \in DOMAIN workers : workers[w].st = "exit"
                   THEN Ret(inFinal) ELSE "poolWait"
          /\ UNCHANGED <<processedIds, workers, queue, hist>>
     ELSE LET w == CHOOSE x \in ready : \A y \in ready : x <= y IN
          IF Len(queue) > 0 /\ MayStartChunk
          THEN IF checkPauseBlocks
               THEN /\ pc' = "suspended"
                    /\ hist' = Checked(hist)
                    /\ UNCHANGED <<processedIds, workers, queue>>
               ELSE LET c == Head(queue).card IN
                    /\ queue' = Tail(queue)
                    /\ pc' = "pool"
                    /\ IF keyOf(c) \in processedIds
                       THEN hist' = Checked(hist) /\ UNCHANGED <<processedIds, workers>>
                       ELSE /\ processedIds' = processedIds \cup {keyOf(c)}
                            /\ SetWorker(w, "api", c, 0)
                            /\ hist' = ApiCalled(Acts([Checked(hist) EXCEPT !.selected = @ + 1],
                                                       {c}, ctl))
          ELSE /\ SetWorker(w, "exit", 0, 0)
               /\ pc' = "pool"
               /\ UNCHANGED <<processedIds, queue, hist>>
  /\ UNCHANGED <<cfgVars, fltVars, ctlVars, callVars, hostVars, stats, useApi, toProcess,
                 idx, fl, attempt, inFinal, prevCount>>

\* toggleViaApi resolves (2xx)
PoolApiOk(w, applied) ==
  /\ pc = "poolWait" /\ w \in DOMAIN workers /\ workers[w].st = "api"
  /\ stats' = Bump(stats, "toggled", 1)
  /\ ApiEffect({workers[w].card}, applied)
  /\ hist' = Out(hist, {workers[w].card}, "toggled")
  /\ SetWorker(w, "ready", 0, 0)
  /\ pc' = "pool"
  /\ UNCHANGED <<cfgVars, fltVars, ctlVars, callVars, fiber, lastPage, srcPage, loading,
                 pending, processedIds, useApi, toProcess, idx, fl, queue, attempt,
                 inFinal, prevCount>>

\* toggleViaApi rejects (429, other status, network error, timeout)
PoolApiErr(w, kind) ==
  /\ pc = "poolWait" /\ w \in DOMAIN workers /\ workers[w].st = "api"
  /\ IF MayRetry(workers[w].attempt)
     THEN /\ stats' = Bump(stats, "retried", 1)
          /\ hist' = Slept(hist, {workers[w].card}, BackoffDelay(workers[w].attempt), kind)
          /\ SetWorker(w, "sleep", workers[w].card, workers[w].attempt)
          /\ UNCHANGED pc
     ELSE /\ stats' = Bump(stats, "failed", 1)
          /\ hist' = Out(hist, {workers[w].card}, "failed")
          /\ SetWorker(w, "ready", 0, 0)
          /\ pc' = "pool"
  /\ UNCHANGED <<cfgVars, fltVars, ctlVars, callVars, hostVars, processedIds, useApi,
                 toProcess, idx, fl, queue, attempt, inFinal, prevCount>>

\* sleep(delay) ends: the next attempt is sent
PoolRetry(w) ==
  /\ pc = "poolWait" /\ w \in DOMAIN workers /\ workers[w].st = "sleep"
  /\ SetWorker(w, "api", workers[w].card, workers[w].attempt + 1)
  /\ hist' = ApiCalled(hist)
  /\ UNCHANGED <<cfgVars, fltVars, ctlVars, callVars, hostVars, processedIds, stats, useApi,
                 toProcess, idx, fl, queue, attempt, mainVars>>

-----------------------------------------------------------------------------
(* Batched API calls of the batch script: one call per chunk of apiBatchSize *)
BatchNext == idx' = idx + Concurrency /\ pc' = "chunk"

\* a retry counted once for every item of the chunk
BatchRetried_PerItem(st) == Bump(st, "retried", Cardinality(ChunkPos))

\* `this._stats.retried++` of a failed call that is tried again
BatchRetried(st) == Bump(st, "retried", 1)

BatchChunk ==
  /\ pc = "chunk" /\ variant = "batch" /\ UsesApi
  /\ IF idx > Len(toProcess) \/ ~MayStartChunk
     THEN /\ pc' = Ret(inFinal)
          /\ UNCHANGED <<attempt, hist>>
     ELSE IF checkPauseBlocks
     THEN /\ pc' = "suspended"
          /\ hist' = Checked(hist)
          /\ UNCHANGED attempt
     ELSE /\ attempt' = 0
          /\ hist' = ApiCalled(Acts(Checked(hist), ChunkCards, ctl))
          /\ pc' = "apiWait"
  /\ UNCHANGED <<cfgVars, fltVars, ctlVars, callVars, hostVars, processedIds, stats, useApi,
                 toProcess, idx, fl, workers, queue, inFinal, prevCount>>

BatchApiOk(applied) ==
  /\ pc = "apiWait"
  /\ stats' = Bump(stats, "toggled", Cardinality(ChunkPos))
  /\ ApiEffect(ChunkCards, applied)
  /\ hist' = Out(hist, ChunkCards, "toggled")
  /\ BatchNext
  /\ UNCHANGED <<cfgVars, fltVars, ctlVars, callVars, fiber, lastPage, srcPage, loading,
                 pending, processedIds, useApi, toProcess, fl, workers, queue, attempt,
                 inFinal, prevCount>>

BatchApiErr(kind) ==
  /\ pc = "apiWait"
  /\ IF MayRetry(attempt)
     THEN /\ stats' = BatchRetried(stats)
          /\ hist' = Slept(hist, ChunkCards, BackoffDelay(attempt), kind)
          /\ pc' = "retrySleep"
          /\ UNCHANGED idx
     ELSE /\ stats' = Bump(stats, "failed", Cardinality(ChunkPos))
          /\ hist' = Out(hist, ChunkCards, "failed")
          /\ BatchNext
  /\ UNCHANGED <<cfgVars, fltVars, ctlVars, callVars, hostVars, processedIds, useApi,
                 toProcess, fl, workers, queue, attempt, inFinal, prevCount>>

BatchRetry ==
  /\ pc = "retrySleep"
  /\ attempt' = attempt + 1
  /\ hist' = ApiCalled(hist)
  /\ pc' = "apiWait"
  /\ UNCHANGED <<cfgVars, fltVars, ctlVars, callVars, hostVars, processedIds, stats, useApi,
                 toProcess, idx, fl, workers, queue, inFinal, prevCount>>

-----------------------------------------------------------------------------
(* Actuations that were issued and have not been counted yet *)
IsInFlight(c) ==
  \/ fl[c] # "none"
  \/ \E w \in DOMAIN workers : workers[w].card = c /\ workers[w].st \in {"api", "sleep"}
  \/ pc \in {"apiWait", "retrySleep"} /\ \E p \in ChunkPos : toProcess[p].card = c
  \/ pc = "seqWait" /\ toProcess[idx].card = c
  \/ pc = "discover" /\ toProcess[1].card = c

InFlight == {c \in Cards : IsInFlight(c)}

-----------------------------------------------------------------------------
(* A run of main() *)
\* the collection at the start: every card in one state, or card 1 in the other
InitEnabled ==
  {[c \in Cards |-> IF c = 1 THEN first ELSE rest] : first \in BOOLEAN, rest \in BOOLEAN}

\* the run uses the default mode; "enable" is the same run with every switch inverted
RunConfigs == {[DefaultCfg EXCEPT !.dryRun = d] : d \in BOOLEAN}

Init ==
  /\ variant \in {"click", "pool", "batch"}
  /\ cfg \in RunConfigs
  /\ NoFilter /\ NoCtl
  /\ fiber \in BOOLEAN
  /\ lastPage \in 1..MaxPages
  /\ srcPage = 1 /\ loading = FALSE
  /\ enabled \in InitEnabled
  /\ pending = [c \in Cards |-> 0]
  /\ processedIds = {} /\ stats = ZeroStats /\ useApi = FALSE
  /\ toProcess = <<>> /\ idx = 1
  /\ fl = [c \in Cards |-> "none"]
  /\ workers = <<>> /\ queue = <<>> /\ attempt = 0
  /\ pc = "start" /\ inFinal = FALSE /\ prevCount = 0
  /\ hist = [InitHist EXCEPT !.enabled0 = enabled]

Next ==
  \/ \E onHost \in BOOLEAN : Preflight(onHost)
  \/ \E captured \in BOOLEAN : DiscoverDone(captured)
  \/ LoopCycle
  \/ Pagination
  \/ LoadingSleepEnds
  \/ NewItemsSeen
  \/ NewItemsTimeout
  \/ PageSleepEnds
  \/ FinalPass
  \/ Finish
  \/ ClickChunk
  \/ \E c \in Cards : ToggleSeen(c)
  \/ \E c \in Cards : ToggleTimeout(c)
  \/ ChunkSleepEnds
  \/ SeqItem
  \/ SeqClickDone
  \/ PoolRun
  \/ \E w \in 1..Concurrency, applied \in BOOLEAN : PoolApiOk(w, applied)
  \/ \E w \in 1..Concurrency, kind \in ErrKinds : PoolApiErr(w, kind)
  \/ \E w \in 1..Concurrency : PoolRetry(w)
  \/ BatchChunk
  \/ \E applied \in BOOLEAN : BatchApiOk(applied)
  \/ \E kind \in ErrKinds : BatchApiErr(kind)
  \/ BatchRetry
  \/ KeyPause
  \/ KeyResume
  \/ \E c \in Cards : FlipLands(c)
  \/ PageArrives
  \/ \E c \in Cards : HostChange(c)
  \/ \E c \in Cards : StragglerAppears(c)

Spec == Init /\ [][Next]_vars

(* A run with its timers, over a collection of two pages (each wait of the  *)
(* run occurs before the second page is listed): a pending setTimeout        *)
(* callback runs (the polls of _waitForToggle and of waitForNewItems,        *)
(* sleep(1000)), and the host delivers a requested page once the poll bound  *)
(* of the model is reached.                                                  *)
InitLive == Init /\ lastPage = 2

SpecLive ==
  /\ InitLive /\ [][Next]_vars
  /\ WF_vars(\E c \in Cards : ToggleSeen(c) \/ ToggleTimeout(c))
  /\ WF_vars(NewItemsSeen \/ NewItemsTimeout)
  /\ WF_vars(LoadingSleepEnds)
  /\ WF_vars(hist.polls >= MaxPolls /\ PageArrives)

\* the steps of the script: every disjunct of Next but the operator's keys,
\* the landing of a click, the arrival of a page and the changes by somebody else
ScriptNext ==
  \/ \E onHost \in BOOLEAN : Preflight(onHost)
  \/ \E captured \in BOOLEAN : DiscoverDone(captured)
  \/ LoopCycle \/ Pagination \/ LoadingSleepEnds \/ NewItemsSeen \/ NewItemsTimeout
  \/ PageSleepEnds \/ FinalPass \/ Finish
  \/ ClickChunk \/ ChunkSleepEnds \/ SeqItem \/ SeqClickDone \/ PoolRun
  \/ \E c \in Cards : ToggleSeen(c) \/ ToggleTimeout(c)
  \/ \E w \in 1..Concurrency, applied \in BOOLEAN : PoolApiOk(w, applied)
  \/ \E w \in 1..Concurrency, kind \in ErrKinds : PoolApiErr(w, kind)
  \/ \E w \in 1..Concurrency : PoolRetry(w)
  \/ BatchChunk \/ BatchRetry
  \/ \E applied \in BOOLEAN : BatchApiOk(applied)
  \/ \E kind \in ErrKinds : BatchApiErr(kind)

(* The run of SpecLive in which, besides, the script is never starved: a    *)
(* task of the script that is ready runs, a sleep ends, and an XHR settles   *)
(* (by its answer, or by xhr.timeout = 15000 and the 8000 ms of discover).   *)
SpecFair == SpecLive /\ WF_vars(ScriptNext)

(* A run of the click engine in which the operator never pauses *)
InitClick == Init /\ variant = "click"

NextClickNoPause ==
  \/ \E onHost \in BOOLEAN : Preflight(onHost)
  \/ LoopCycle
  \/ Pagination
  \/ LoadingSleepEnds
  \/ NewItemsSeen
  \/ NewItemsTimeout
  \/ PageSleepEnds
  \/ FinalPass
  \/ Finish
  \/ ClickChunk
  \/ \E c \in Cards : ToggleSeen(c)
  \/ \E c \in Cards : ToggleTimeout(c)
  \/ ChunkSleepEnds
  \/ \E c \in Cards : FlipLands(c)
  \/ PageArrives
  \/ \E c \in Cards : HostChange(c)
  \/ \E c \in Cards : StragglerAppears(c)

SpecClickNoPause == InitClick /\ [][NextClickNoPause]_vars

-----------------------------------------------------------------------------
(* Claims about a run (Spec) *)

\* outcomes of kind o counted so far, over all cards
RECURSIVE SumOut(_, _, _)
SumOut(h, o, n) == IF n = 0 THEN 0 ELSE h.out[n][o] + SumOut(h, o, n - 1)

CountOut(h, o) == SumOut(h, o, MaxCards)

\* failures counted so far: actuations that failed and cards that were not found
CountFailed(h) == CountOut(h, "failed") + CountOut(h, "nocard")

\* outcomes of actuations (a card that was not found is not actuated) of card c
Counted(h, c) == h.out[c].toggled + h.out[c].failed

HasOut(c, o) == hist.out[c][o] > 0

\* C1: within one run the items that share a dedup key (itemId, or the title
\* when itemId is null) are actuated at most once altogether, duplicates on
\* the same page read included.
C1_AtMostOncePerKey ==
  \A c \in Cards :
    /\ hist.acts[c] <= 1
    /\ \A d \in Cards \ {c} :
         keyOf(c) = keyOf(d) => ~(hist.acts[c] > 0 /\ hist.acts[d] > 0)

\* C3: in a dry run nothing is actuated (no click, no API call, no pending
\* or landed flip of the collection), toggled, failed and retried stay 0, and
\* skipped is the number of selected items, each counted as skipped.
C3_DryRunPure ==
  cfg.dryRun =>
    /\ hist.clicks = 0 /\ hist.apiCalls = 0
    /\ \A c \in Cards : hist.acts[c] = 0 /\ pending[c] = 0
    /\ enabled = hist.enabled0
    /\ stats.toggled = 0 /\ stats.failed = 0 /\ stats.retried = 0
    /\ stats.skipped = hist.selected
    /\ stats.skipped = CountOut(hist, "skipped")
    /\ CountOut(hist, "toggled") = 0 /\ CountFailed(hist) = 0

\* a finished dry run that selected items
C3_Witness == cfg.dryRun /\ pc = "done" /\ stats.skipped > 1

\* C4: a first actuation is issued only while the controller is running (so
\* none between pause and resume); an actuation that was issued is in flight
\* until its outcome is counted in Stats, paused or not, and none is in
\* flight when the run is done.
C4_PauseBarrier ==
  /\ hist.issuedIn \subseteq {"running"}
  /\ \A c \in Cards :
       hist.acts[c] = Counted(hist, c) + (IF IsInFlight(c) THEN 1 ELSE 0)
  /\ stats.toggled + stats.failed = CountOut(hist, "toggled") + CountFailed(hist)
  /\ pc = "done" => InFlight = {}

\* an outcome was counted while paused, and nothing is in flight any more
C4_Witness == hist.countedPaused /\ isPaused /\ InFlight = {}

\* C5: the run becomes done before the source reported the last page only
\* after a stop by the operator or a failed pre-flight check (the script binds
\* no key to stop(), and a failed pre-flight check never starts the
\* controller, so neither leads to done here); a pause, resumed or not, does
\* not make the main loop exit.
C5_DoneOnlyAfterLastPage == ctl = "done" => hist.firstLastAt > 0

\* C7: when the pagination query of the 3rd cycle is the first to report the
\* last page, the run is done after exactly 3 item-listing cycles and exactly
\* one final pass.
C7_ThreeCyclesOneFinal ==
  (pc = "done" /\ hist.firstLastAt = 3) => (hist.cycles = 3 /\ hist.finalPasses = 1)

\* C8: when every item of the collection starts in the desired state, a run
\* that made its final pass ends with toggled = 0, skipped = N, failed = 0.
C8_AlreadyDesiredSkipped ==
  (pc = "done" /\ hist.finalPasses = 1 /\ \A c \in Cards : hist.enabled0[c] = expectChecked) =>
    (stats.toggled = 0 /\ stats.skipped = MaxCards /\ stats.failed = 0)

ExpectedDelays == [i \in 1..maxRetries |-> retryBackoffMs * 2 ^ (i - 1)]

\* C9: the delays slept by one API actuation are retryBackoffMs * 2^attempt for
\* attempt 0, 1, ... (never decreasing); an actuation counted failed slept
\* maxRetries times; retried counts every such sleep.
C9_BackoffThenFailed ==
  /\ \A c \in Cards :
       LET d == hist.delays[c] IN
       /\ Len(d) <= maxRetries
       /\ \A i \in DOMAIN d : d[i] = ExpectedDelays[i]
       /\ \A i \in DOMAIN d : \A j \in DOMAIN d : i <= j => d[i] <= d[j]
       /\ (variant # "click" /\ HasOut(c, "failed")) => d = ExpectedDelays
  /\ stats.retried = hist.sleeps

\* an API actuation was counted failed after its retries
C9_Witness ==
  \E c \in Cards : variant # "click" /\ HasOut(c, "failed") /\ stats.retried >= maxRetries

\* cards that get a failure counted in this step
Failing == {c \in Cards : \/ hist'.out[c].failed > hist.out[c].failed
                           \/ hist'.out[c].nocard > hist.out[c].nocard}

\* items of the batch no actuation was started for
Unstarted ==
  IF variant = "pool" /\ UsesApi THEN Len(queue)
  ELSE IF idx > Len(toProcess) THEN 0 ELSE Len(toProcess) - idx + 1

\* what a step that counts outcomes does to the counters and to the
\* actuations in flight beside a failing one, and when processBatch returns
FailureIsolatedStep ==
  /\ (stats' # stats \/ hist'.out # hist.out) =>
       /\ stats'.failed - stats.failed = CountFailed(hist') - CountFailed(hist)
       /\ stats'.toggled - stats.toggled
            = CountOut(hist', "toggled") - CountOut(hist, "toggled")
       /\ stats'.skipped - stats.skipped
            = CountOut(hist', "skipped") - CountOut(hist, "skipped")
       /\ Failing # {} =>
            \A d \in InFlight \ Failing : IsInFlight(d)' /\ hist'.out[d] = hist.out[d]
  /\ (pc' \in {"pagination", "finish"} /\ ctl' = "running") => Unstarted' = 0

PosOf(c) == CHOOSE p \in DOMAIN toProcess : toProcess[p].card = c

BatchOf(c) == (PosOf(c) - 1) \div Concurrency

\* C11: the survivors are actuated in batches of at most `concurrency` items:
\* at most `concurrency` actuations are in flight, and all of them belong to
\* one batch (none of batch N+1 is issued while one of batch N is open).
C11_BatchBarrier ==
  /\ Cardinality(InFlight) <= Concurrency
  /\ \A c \in InFlight : \A d \in InFlight : BatchOf(c) = BatchOf(d)

\* C16: none of the counters toggled, skipped, failed, retried decreases in
\* a step of the run.
C16_StatsMonotonic ==
  [][\A f \in {"toggled", "skipped", "failed", "retried"} : stats'[f] >= stats[f]]_vars

\* a finished run that counted toggles, failures and retries
C16_Witness ==
  pc = "done" /\ stats.toggled > 0 /\ stats.failed > 0 /\ stats.retried > 0

\* the waits of the run: verification of the clicks of a chunk, the wait for
\* new items after loadMore(), the sleep of the re-poll while loading
WaitPcs == {"chunkWait", "waitNew", "loadingSleep"}

C18_PreflightAbort ==
  pc = "aborted" =>
    /\ ctl = "idle" /\ pausePromise = 0 /\ pauseResolve = 0
    /\ processedIds = {} /\ stats = ZeroStats
    /\ hist = [InitHist EXCEPT !.enabled0 = hist.enabled0]
    /\ toProcess = <<>> /\ ~useApi
    /\ srcPage = 1 /\ ~loading
    /\ enabled = hist.enabled0 /\ \A c \in Cards : pending[c] = 0

\* the pre-flight check failed on a collection with items to toggle
C18_Witness == pc = "aborted" /\ \E c \in Cards : enabled[c]

\* C20: no first actuation is issued and no loadMore() is called while the
\* controller is paused.
C20_NoWorkWhilePaused ==
  /\ "paused" \notin hist.issuedIn
  /\ "paused" \notin hist.loadedIn

\* C21: every click (first or retry) and every API call (first or retry) is
\* issued in a step in which the controller is running.
C21_ActOnlyRunning ==
  [][ (hist'.clicks # hist.clicks \/ hist'.apiCalls # hist.apiCalls) => ctl' = "running" ]_vars

\* C22: while an actuation of a survivor of the page read is open, the key of
\* every survivor of that read is in the dedup set; the key of an item that
\* was actuated stays in the set, whatever the outcome, and no item is
\* actuated a second time.
C22_MarkedBeforeActuation ==
  /\ (pc # "discover" /\ InFlight # {}) =>
       \A i \in DOMAIN toProcess : keyOf(toProcess[i].card) \in processedIds
  /\ \A c \in Cards :
       /\ (hist.acts[c] > 0 /\ ~IsInFlight(c)) => keyOf(c) \in processedIds
       /\ hist.acts[c] <= 1

\* the switch polled for item c shows the expected state
Shown(c) == enabled[cardElOf(c)] = expectChecked

\* a card is clicked for item c in this step: its first click, or the click
\* that follows its first verification
ClickedNow(c) ==
  \/ hist'.acts[c] > hist.acts[c]
  \/ fl[c] = "wait1" /\ fl'[c] = "wait2"

NoCardNow == {c \in Cards : hist'.out[c].nocard > hist.out[c].nocard}

\* C24: an item whose card is not found is counted failed in the step that
\* looks the card up: that step clicks no card of such an item, sends no API
\* call, leaves retried as it is and changes toggled by the outcomes of other
\* items only; such an item is never actuated, before or after, never in
\* flight and never slept for, and it has this one outcome.
C24_NoHandleFailsAtOnce ==
  [][ /\ \A c \in Cards :
           HasOut(c, "nocard") =>
             /\ hist.acts[c] = 0 /\ ~IsInFlight(c) /\ hist.delays[c] = <<>>
             /\ hist.out[c] = [NoOut EXCEPT !.nocard = 1]
      /\ NoCardNow # {} =>
           /\ stats'.failed = stats.failed + Cardinality(NoCardNow)
           /\ stats'.retried = stats.retried
           /\ stats'.toggled - stats.toggled
                = CountOut(hist', "toggled") - CountOut(hist, "toggled")
           /\ hist'.apiCalls = hist.apiCalls /\ hist'.sleeps = hist.sleeps
           /\ hist'.clicks - hist.clicks = Cardinality({d \in Cards : ClickedNow(d)})
           /\ \A c \in NoCardNow :
                /\ ~ClickedNow(c) /\ hist'.acts[c] = hist.acts[c]
                /\ hist'.out[c].toggled = hist.out[c].toggled
    ]_vars

\* a finished run whose only outcome is one item with no card: no click, no
\* API call, failed = 1
C24_Witness ==
  /\ pc = "done" /\ hist.clicks = 0 /\ hist.apiCalls = 0
  /\ stats = [ZeroStats EXCEPT !.failed = 1]
  /\ \E c \in Cards : HasOut(c, "nocard")

\* first actuations issued so far, over all cards
RECURSIVE SumActs(_, _)
SumActs(h, n) == IF n = 0 THEN 0 ELSE h.acts[n] + SumActs(h, n - 1)

\* C25: at the end of a run retried is the number of retry attempts: the
\* attempts sent after a backoff sleep in the API engines, and in the click
\* engine the clicks that were not the first click of an item.
C25_RetriedCountsRetries ==
  pc = "done" =>
    stats.retried = hist.sleeps
                      + (IF variant = "click" THEN hist.clicks - SumActs(hist, MaxCards) ELSE 0)

\* C27: an API call that the remote system rejected definitively (an HTTP
\* status outside 2xx other than 429) is not sent again.
C27_PermanentNotRetried == ~hist.permRetried

\* C26: an item that was switched to the desired state by somebody else after
\* the page was read and before its turn came receives no action and is not
\* counted toggled.
C26_DesiredAtActuationSkipped ==
  hist.changed # 0 =>
    /\ hist.acts[hist.changed] = 0
    /\ hist.out[hist.changed].toggled = 0

\* C28: a cycle whose pagination query reports isLoading (and not isLastPage)
\* requests no page: it sleeps and the loop polls again with its next cycle;
\* so loadMore() is never invoked while a page load is in flight.
C28_NoLoadWhileLoading ==
  [][ /\ (pc = "pagination" /\ getPagination.isLoading /\ ~getPagination.isLastPage) =>
           /\ pc' = "loadingSleep"
           /\ hist'.loadedIn = hist.loadedIn /\ UNCHANGED <<loading, srcPage>>
      /\ (pc = "loadingSleep" /\ pc' # pc) => pc' = "loop"
      /\ (pc = "pagination" /\ pc' = "waitNew") => ~loading
    ]_vars

\* C29: once a cycle has read isLastPage, no further cycle is started and no
\* page is requested or polled for: the run is in the final pass (at most
\* one) or behind it, and the controller becomes done.
C29_LastPageEndsLoop ==
  /\ [][ hist.firstLastAt > 0 =>
           /\ hist'.firstLastAt = hist.firstLastAt /\ hist'.cycles = hist.cycles
           /\ hist'.loadedIn = hist.loadedIn /\ hist'.polls = hist.polls
           /\ loading' => loading
           /\ hist'.finalPasses <= 1
           /\ pc' \notin {"loop", "pagination", "waitNew", "pageSleep", "loadingSleep"}
       ]_vars
  /\ (hist.firstLastAt > 0) ~> (ctl = "done")

\* a run that read the last page, made its final pass and is done
C29_Witness ==
  pc = "done" /\ ctl = "done" /\ hist.firstLastAt > 1 /\ hist.finalPasses = 1 /\ stats.toggled > 1

\* C30: the wait after loadMore() ends in the sleep before the next cycle and
\* changes neither the controller nor the counters, whether new items were
\* seen or the wait timed out; a cycle starts from the head of the loop only,
\* never during the wait or the sleep, and the head of the loop starts the
\* next cycle whenever the controller is running.
C30_TimeoutContinues ==
  [][ /\ (pc = "waitNew" /\ pc' # pc) =>
           /\ pc' = "pageSleep"
           /\ ctl' = ctl /\ stats' = stats /\ hist'.cycles = hist.cycles
      /\ (pc = "pageSleep" /\ pc' # pc) => (pc' = "loop" /\ ctl' = ctl)
      /\ hist'.cycles # hist.cycles => (pc = "loop" /\ hist'.cycles = hist.cycles + 1)
      /\ (pc = "loop" /\ isRunning) => hist'.cycles = hist.cycles + 1
    ]_vars

\* a later cycle of a running loop finds the page requested by an earlier
\* cycle still in flight: the wait for it timed out and the loop went on
C30_Witness ==
  pc = "pagination" /\ isRunning /\ loading /\ hist.cycles >= 2 /\ ~fiber

\* listed items that are not in the desired state (every item passes the rest
\* of the policy of a run: no content types, no keywords)
Undesired == {c \in 1..VisibleCount : shouldProcess(ItemOf(getItems[c]), cfg)}

\* the items of S are handed to the engine in this step: they are in the batch
\* of processBatch, or counted skipped by its dry run
TakenNow(S) ==
  \A c \in S : c \in CardsOf(toProcess') \/ hist'.out[c].skipped > hist.out[c].skipped

\* the final pass is made once, when main comes to it with the controller
\* running, else not at all; the controller becomes done behind it
FinalPassOnce ==
  /\ (pc = "final" /\ isRunning) => (hist.finalPasses = 0 /\ hist'.finalPasses = 1)
  /\ (pc = "final" /\ ~isRunning) =>
       /\ pc' = "finish"
       /\ UNCHANGED <<stats, processedIds, toProcess, pending, enabled>>
  /\ hist'.finalPasses # hist.finalPasses => (pc = "final" /\ isRunning)
  /\ ctl' = "done" => pc \in {"finish", "done"}
  /\ (pc' = "finish" /\ pc # "finish") => (pc = "final" \/ hist.finalPasses = 1)

\* C31 (amended): when main comes to the final pass with the controller
\* running, the final pass is made exactly once: it reads the items again and
\* hands to the engine every listed item that is not in the desired state at
\* that time and whose key is not in the dedup set; when the controller is not
\* running the final pass is not made.  The controller becomes done only
\* behind the final pass.
C31_FinalPassCatchesUnmarked ==
  [][ /\ FinalPassOnce
      /\ (pc = "final" /\ isRunning) =>
           TakenNow({c \in Undesired : keyOf(c) \notin processedIds})
    ]_vars

\* C31 (as stated): as above, and the final pass of a run that is not a dry
\* run handles every listed item that is not in the desired state at that
\* time, in the dedup set or not.
C31_FinalPassCatchesAll ==
  [][ /\ FinalPassOnce
      /\ (pc = "final" /\ isRunning /\ ~cfg.dryRun) => TakenNow(Undesired)
    ]_vars

\* the batch of the final pass has returned: it toggled an item that somebody
\* else had switched during the last cycle
C31_Witness ==
  /\ pc = "finish" /\ inFinal /\ isRunning /\ hist.finalPasses = 1
  /\ hist.straggler # 0 /\ HasOut(hist.straggler, "toggled")
  /\ hist.straggler \in CardsOf(toProcess)

\* items that were actuated, or counted skipped, or counted failed for want of
\* a card
Handled ==
  {c \in Cards : hist.acts[c] > 0 \/ HasOut(c, "skipped") \/ HasOut(c, "nocard")}

\* items whose key was added to the dedup set: the survivors marked by
\* processBatch / toggleItem and the item marked by Engine.init
Marked == hist.selected + (IF hist.discovered # 0 /\ pc # "discover" THEN 1 ELSE 0)

\* C32: when the run is done, every item whose key was added to the dedup set
\* has been actuated or counted skipped or failed: none is marked and then
\* left without an actuation and without a count.
C32_MarkedIsHandled == pc = "done" => Marked <= Cardinality(Handled)

C34_ToggledIsDesired ==
  (/\ variant = "click" /\ ~fiber /\ pc = "done"
   /\ hist.changed = 0 /\ hist.straggler = 0
   /\ \A d \in Cards : pending[d] = 0) =>
    \A c \in Cards : HasOut(c, "toggled") => enabled[c] = expectChecked

\* C36: in a dry run skipped is the number of distinct dedup keys of the
\* items selected so far, over all page reads and the final pass.
C36_DryRunSkippedPerKey == cfg.dryRun => stats.skipped = Cardinality(processedIds)

\* C37: the item whose card Engine.init clicked to discover the API was
\* clicked once (no other click is in flight while discover waits); once
\* discover has resolved, captured or not, the item is counted toggled once,
\* its key is in the dedup set, and it is in no batch of processBatch: the
\* discovery click stays its only actuation.
C37_DiscoveryItemOnce ==
  hist.discovered # 0 =>
    LET d == hist.discovered IN
    /\ hist.acts[d] = 1
    /\ pc = "discover" => (hist.clicks = 1 /\ pending[d] + hist.apiCalls <= 1)
    /\ pc # "discover" =>
         /\ hist.out[d] = [NoOut EXCEPT !.toggled = 1]
         /\ keyOf(d) \in processedIds
         /\ d \notin CardsOf(toProcess) /\ d \notin CardsOf(queue)

\* workers of the pool with a toggleItem call in flight
Busy == {w \in DOMAIN workers : workers[w].st \in {"api", "sleep"}}

\* worker w takes an item from the queue in this step
Takes(w) ==
  /\ w \in DOMAIN workers /\ w \in DOMAIN workers'
  /\ workers[w].st = "ready" /\ workers'[w].st = "api"

\* C38: in the worker pool at most apiConcurrency toggleItem calls are in
\* flight; a step takes at most one item, the head of the queue, which leaves
\* the queue for good; the key of the item is tested and inserted in that same
\* step, so no two workers hold the same item or the same key and no item is
\* actuated twice; the queue only loses its head.
C38_PoolTakesOnce ==
  [][ variant = "pool" =>
        /\ Cardinality(Busy) <= Concurrency /\ Cardinality(Busy') <= Concurrency
        /\ \A w \in Busy : \A x \in Busy \ {w} :
             /\ workers[w].card # workers[x].card
             /\ keyOf(workers[w].card) # keyOf(workers[x].card)
        /\ \A w \in Busy :
             /\ workers[w].card \notin CardsOf(queue)
             /\ keyOf(workers[w].card) \in processedIds
             /\ hist.acts[workers[w].card] = 1
        /\ \A w \in 1..MaxCards :
             Takes(w) =>
               /\ Len(queue) > 0 /\ workers'[w].card = Head(queue).card
               /\ queue' = Tail(queue)
               /\ keyOf(Head(queue).card) \notin processedIds
               /\ processedIds' = processedIds \cup {keyOf(Head(queue).card)}
               /\ hist.acts[Head(queue).card] = 0
               /\ \A x \in DOMAIN workers \ {w} : workers'[x] = workers[x]
        /\ (queue' # queue /\ pc = "pool") => queue' = Tail(queue)
        /\ \A c \in Cards : hist'.acts[c] <= 1
    ]_vars

\* both workers of the pool have a call in flight and an item waits in the queue
C38_Witness ==
  /\ variant = "pool" /\ pc = "poolWait" /\ Len(queue) = 1
  /\ Cardinality(Busy) = Concurrency
  /\ \A w \in Busy : workers[w].st = "api"

\* the batch script is inside its loop of batched API calls
InBatchApi == variant = "batch" /\ UsesApi /\ pc \in {"chunk", "apiWait", "retrySleep"}

\* C39: in the batched API path a chunk is counted as a unit.  The counters
\* move only in the step in which a call of the chunk resolves (the script
\* leaves "apiWait"), and then in exactly one way:
\* toggled grows by the size of the chunk (the call succeeded, at one of the
\* maxRetries + 1 attempts) and the chunk is over; or failed grows by the size
\* of the chunk (the last attempt failed) and the chunk is over; or retried
\* grows by one and the same chunk is called again.  Skipped never moves, and
\* all items of a finished chunk carry the same outcome.
C39_ChunkCountedAsUnit ==
  [][ InBatchApi =>
        LET n  == Cardinality(ChunkPos)
            dT == stats'.toggled - stats.toggled
            dF == stats'.failed - stats.failed
            dR == stats'.retried - stats.retried
        IN /\ stats'.skipped = stats.skipped
           /\ (pc # "apiWait" \/ pc' = pc \/ pc' \notin {"chunk", "retrySleep"})
                => stats' = stats
           /\ (pc = "apiWait" /\ pc' \in {"chunk", "retrySleep"}) =>
                /\ n \in 1..Concurrency /\ attempt \in 0..maxRetries
                /\ \/ /\ dT = n /\ dF = 0 /\ dR = 0
                      /\ pc' = "chunk" /\ idx' = idx + Concurrency
                      /\ \A c \in ChunkCards :
                           hist'.out[c] = [hist.out[c] EXCEPT !.toggled = @ + 1]
                   \/ /\ dT = 0 /\ dF = n /\ dR = 0
                      /\ attempt = maxRetries
                      /\ pc' = "chunk" /\ idx' = idx + Concurrency
                      /\ \A c \in ChunkCards :
                           hist'.out[c] = [hist.out[c] EXCEPT !.failed = @ + 1]
                   \/ /\ dT = 0 /\ dF = 0 /\ dR = 1
                      /\ attempt < maxRetries
                      /\ pc' = "retrySleep" /\ idx' = idx
           /\ pc = "retrySleep" /\ pc' = "apiWait" => attempt' = attempt + 1
    ]_vars

\* a finished run of the batch script in which a chunk of two items failed
\* after maxRetries retried calls and another chunk was toggled
C39_Witness ==
  /\ variant = "batch" /\ pc = "done" /\ useApi
  /\ stats.failed = Concurrency /\ stats.retried = maxRetries
  /\ stats.toggled > 0

-----------------------------------------------------------------------------
(* Claims about a run of the click engine without a pause (SpecClickNoPause) *)

\* outcomes counted for item c, of any kind
Outcomes(c) ==
  hist.out[c].toggled + hist.out[c].failed + hist.out[c].nocard + hist.out[c].skipped

\* C35: when a run of the click engine in which pause was never issued is
\* done, toggled + skipped + failed is the number of selected items, and every
\* selected item has incremented one of the three counters, once.
C35_EverySelectedCountedOnce ==
  pc = "done" =>
    /\ stats.toggled + stats.skipped + stats.failed = hist.selected
    /\ stats.toggled = CountOut(hist, "toggled")
    /\ stats.skipped = CountOut(hist, "skipped")
    /\ stats.failed = CountFailed(hist)
    /\ \A c \in Cards : Outcomes(c) <= 1
    /\ Cardinality({c \in Cards : Outcomes(c) = 1}) = hist.selected
    /\ processedIds = {keyOf(c) : c \in {d \in Cards : Outcomes(d) = 1}}

\* a finished run that selected every item of two pages and counted items
\* toggled (verified and unverified) and failed (no card, two timeouts)
C35_Witness ==
  /\ pc = "done" /\ hist.selected = MaxCards /\ hist.cycles = 2
  /\ stats.toggled = 2 /\ stats.failed = 2 /\ hist.clicks > 3
  /\ \E c \in Cards : HasOut(c, "nocard")

-----------------------------------------------------------------------------
(* Claims about the filter (SpecFilter) *)

\* a keyword occurs in the title, case folded unless keywordCaseSensitive
Occurs(kw, title, c) ==
  IF c.keywordCaseSensitive THEN includes(title, kw)
  ELSE includes(toLowerCase(title), toLowerCase(kw))

AlreadyDesired(item, c) ==
  \/ c.mode = "disable" /\ ~item.isEnabled
  \/ c.mode = "enable" /\ item.isEnabled

TypeExcluded(item, c) ==
  /\ ~c.contentTypes.null
  /\ \A i \in 1..Len(c.contentTypes.v) :
       toUpperCaseType(c.contentTypes.v[i]) # toUpperCaseType(item.contentType)

IncludeMiss(item, c) ==
  /\ ~c.keywords.null /\ Len(c.keywords.v) > 0
  /\ \A i \in 1..Len(c.keywords.v) : ~Occurs(c.keywords.v[i], item.title, c)

ExcludeHit(item, c) ==
  /\ ~c.excludeKeywords.null
  /\ \E i \in 1..Len(c.excludeKeywords.v) : Occurs(c.excludeKeywords.v[i], item.title, c)

\* C2: shouldProcess returns false if and only if the item is already in the
\* desired state, or its content type is excluded by a restriction, or an
\* include list exists and no keyword occurs in the title, or an exclude
\* keyword occurs in the title.
C2_FilterIff ==
  fApplied =>
    (~fResult <=> \/ AlreadyDesired(fItem, cfg)
                  \/ TypeExcluded(fItem, cfg)
                  \/ IncludeMiss(fItem, cfg)
                  \/ ExcludeHit(fItem, cfg))

\* titles that differ in letter case only
SameUpToCase(s, t) ==
  /\ Len(s) = Len(t)
  /\ \A i \in 1..Len(s) : s[i] = t[i] \/ {s[i], t[i]} = {"a", "A"}

\* keyword kw occurs in the title letter for letter
OccursExactly(kw, title) ==
  \E i \in 0..(Len(title) - Len(kw)) :
    \A j \in 1..Len(kw) : title[i + j] = kw[j]

\* C19: unless keywordCaseSensitive is set, two titles that differ in case
\* only get the same result for every keyword list; with keywordCaseSensitive
\* a keyword list lets an item pass only if a keyword occurs in the title with
\* identical case.
C19_KeywordCase ==
  fApplied =>
    /\ ~cfg.keywordCaseSensitive =>
         \A t \in Strings(MaxTitleLen) :
           SameUpToCase(t, fItem.title) =>
             shouldProcess([fItem EXCEPT !.title = t], cfg) = fResult
    /\ (cfg.keywordCaseSensitive /\ ~cfg.keywords.null /\ Len(cfg.keywords.v) > 0) =>
         (fResult => \E i \in 1..Len(cfg.keywords.v) :
                       OccursExactly(cfg.keywords.v[i], fItem.title))

\* an item whose title matches the keyword only after case folding passed
C19_Witness ==
  /\ fApplied /\ fResult /\ ~cfg.keywordCaseSensitive
  /\ fItem.title = <<"b", "A">> /\ cfg.keywords = Arr(<< <<"a">> >>)

-----------------------------------------------------------------------------
(* Claims about the controller (SpecCtl) *)

IsCall(op) == lastOp'.op = op /\ lastOp'.tick # lastOp.tick

\* C6: after pause() took the controller from running to paused (armed: no
\* resume() or stop() was called since), a call of checkPause() blocks, a
\* blocked caller is released by a call of resume() or stop() only, and a
\* resume() that leaves paused leaves no caller blocked.
C6_PauseBlocksUntilResume ==
  [][ /\ (IsCall("checkPause") /\ lastOp.armed) => lastOp'.blocked
      /\ \A k \in Callers :
           (waiting[k] # 0 /\ waiting'[k] = 0) => (IsCall("resume") \/ IsCall("stop"))
      /\ (IsCall("resume") /\ ctl = "paused") => \A k \in Callers : waiting'[k] = 0
    ]_vars


\* C12: pause() called in a state other than running, and resume() called in
\* a state other than paused, change neither the controller state nor the
\* pause gate (the promise, its resolver, the callers blocked on it).
C12_PauseResumeNoOp ==
  [][ ((IsCall("pause") /\ ctl # "running") \/ (IsCall("resume") /\ ctl # "paused"))
        => UNCHANGED <<ctl, pausePromise, pauseResolve, waiting>>
    ]_vars

\* resume() was called in state done, with the gate of an earlier pause left
C12_Witness == lastOp.op = "resume" /\ ctl = "done" /\ pausePromise # 0

\* C13: start() moves the controller from idle to running, and in any other
\* state it leaves the state as it is.
C13_StartOnlyFromIdle ==
  [][ IsCall("start") => ctl' = (IF ctl = "idle" THEN "running" ELSE ctl) ]_vars

\* C14: done is never left, and the controller changes state only from idle
\* to running, from running to paused, from paused to running, and to done.
C14_DoneTerminal ==
  [][ /\ ctl = "done" => ctl' = "done"
      /\ ctl' # ctl =>
           \/ ctl' = "done"
           \/ <<ctl, ctl'>> \in {<<"idle", "running">>, <<"running", "paused">>,
                                 <<"paused", "running">>}
    ]_vars

\* C15: stop() leaves the controller done whatever the state was, and no
\* caller of checkPause() is blocked after it.
C15_StopReleases ==
  [][ IsCall("stop") => (ctl' = "done" /\ \A k \in Callers : waiting'[k] = 0) ]_vars

====
